---- MODULE Spec2Model ----
(***************************************************************************)
(* Model of the source-rewriting migration utilities of                    *)
(* reflex/utils/prerequisites.py: migrate_to_rx_chakra, its rule builder   *)
(* _get_rx_chakra_component_to_migrate, and migrate_to_reflex.             *)
(*                                                                         *)
(* Text is modelled at character level: a string is a sequence of          *)
(* one-character strings, with "LF" and "CR" standing for \n and \r.       *)
(***************************************************************************)
EXTENDS Integers, Sequences, FiniteSets, TLC

\* ------------------------------------------------------------------ bounds

\* Largest number of fragments a generated file content is composed of.
MaxFrags == 3

\* ------------------------------------------------------------- characters

LowerCase == {"a", "b", "c", "d", "e", "f", "g", "h", "i", "j", "k", "l", "m",
              "n", "o", "p", "q", "r", "s", "t", "u", "v", "w", "x", "y", "z"}

UpperCase == {"A", "B", "C", "D", "E", "F", "G", "H", "I", "J", "K", "L", "M",
              "N", "O", "P", "Q", "R", "S", "T", "U", "V", "W", "X", "Y", "Z"}

Digits == {"0", "1", "2", "3", "4", "5", "6", "7", "8", "9"}

\* The characters the regex class \w matches (an identifier character).
WordChars == LowerCase \cup UpperCase \cup Digits \cup {"_"}

IsWordChar(c) == c \in WordChars

RECURSIVE Flatten(_)
\* "".join(seqs)
Flatten(seqs) ==
    IF seqs = <<>> THEN <<>> ELSE Head(seqs) \o Flatten(Tail(seqs))

\* ------------------------------------------------------ regular expressions

\* The regex assertion \b at position i of s, i.e. between s[i-1] and s[i]:
\* exactly one of the two neighbours is a word character (a missing
\* neighbour counts as a non-word character).
WordBoundary(s, i) ==
    LET before == i > 1 /\ i - 1 <= Len(s) /\ IsWordChar(s[i - 1])
        after  == i >= 1 /\ i <= Len(s) /\ IsWordChar(s[i])
    IN  before # after

\* s has the literal lit at position i.
StartsAt(s, i, lit) ==
    /\ i >= 1
    /\ i + Len(lit) - 1 <= Len(s)
    /\ SubSeq(s, i, i + Len(lit) - 1) = lit

\* Mutant of the literal below: the pattern rf"\b{name}\b", without rx\.
PatternNoPrefix(name) == name

\* The literal text of the pattern rf"\brx\.{name}\b", without its assertions.
PatternLiteral(name) == <<"r", "x", ".">> \o name

\* The replacement f"rx.chakra.{name}".
Replacement(name) == <<"r", "x", ".", "c", "h", "a", "k", "r", "a", ".">> \o name

\* Mutants of the pattern: one of the two \b assertions is missing.
PatternMatchesAtNoTrailingBoundary(name, s, i) ==
    /\ WordBoundary(s, i)
    /\ StartsAt(s, i, PatternLiteral(name))

PatternMatchesAtNoLeadingBoundary(name, s, i) ==
    /\ StartsAt(s, i, PatternLiteral(name))
    /\ WordBoundary(s, i + Len(PatternLiteral(name)))

\* The pattern rf"\brx\.{name}\b" matches s at position i.
PatternMatchesAt(name, s, i) ==
    /\ WordBoundary(s, i)
    /\ StartsAt(s, i, PatternLiteral(name))
    /\ WordBoundary(s, i + Len(PatternLiteral(name)))

RECURSIVE re_sub_from(_, _, _)
\* re.sub scanning s from position i: leftmost, non-overlapping matches.
re_sub_from(name, s, i) ==
    IF i > Len(s) THEN <<>>
    ELSE IF PatternMatchesAt(name, s, i)
         THEN Replacement(name) \o re_sub_from(name, s, i + Len(PatternLiteral(name)))
         ELSE <<s[i]>> \o re_sub_from(name, s, i + 1)

\* re.sub(rf"\brx\.{name}\b", f"rx.chakra.{name}", line)
re_sub(name, line) == re_sub_from(name, line, 1)

RECURSIVE str_replace_from(_, _, _, _)
\* str.replace scanning s from position i: leftmost, non-overlapping
\* occurrences of old, wherever they are.
str_replace_from(old, new, s, i) ==
    IF i > Len(s) THEN <<>>
    ELSE IF StartsAt(s, i, old)
         THEN new \o str_replace_from(old, new, s, i + Len(old))
         ELSE <<s[i]>> \o str_replace_from(old, new, s, i + 1)

\* Mutant of the function below: only the first occurrence is replaced.
str_replace_first(old, new, line) ==
    LET starts == { i \in 1..Len(line) : StartsAt(line, i, old) } IN
    IF starts = {} THEN line
    ELSE LET i == CHOOSE j \in starts : \A k \in starts : j <= k IN
         SubSeq(line, 1, i - 1) \o new \o SubSeq(line, i + Len(old), Len(line))

\* line.replace(old, new)
str_replace(old, new, line) == str_replace_from(old, new, line, 1)

\* ------------------------------------------------------------- text files

RECURSIVE UniversalNewlines(_)
\* Reading in text mode with newline=None: \r\n and a lone \r become \n.
UniversalNewlines(s) ==
    IF s = <<>> THEN <<>>
    ELSE IF s[1] = "CR"
         THEN <<"LF">> \o UniversalNewlines(
                  IF Len(s) >= 2 /\ s[2] = "LF" THEN SubSeq(s, 3, Len(s)) ELSE Tail(s))
         ELSE <<s[1]>> \o UniversalNewlines(Tail(s))

RECURSIVE SplitLines(_, _)
\* The lines of s, each with its terminating \n (the last may have none);
\* cur is the line being collected.
SplitLines(s, cur) ==
    IF s = <<>> THEN (IF cur = <<>> THEN <<>> ELSE <<cur>>)
    ELSE IF s[1] = "LF"
         THEN <<Append(cur, "LF")>> \o SplitLines(Tail(s), <<>>)
         ELSE SplitLines(Tail(s), Append(cur, s[1]))

\* The lines the iteration "for line in file" yields for a file whose bytes
\* are content.
ReadLines(content) == SplitLines(UniversalNewlines(content), <<>>)

RECURSIVE WriteText(_, _)
\* Writing in text mode with newline=None: every \n becomes os.linesep.
WriteText(s, sep) ==
    IF s = <<>> THEN <<>>
    ELSE (IF s[1] = "LF" THEN sep ELSE <<s[1]>>) \o WriteText(Tail(s), sep)

\* ------------------------------------------------- the legacy namespace

\* Names of the namespace reflex.chakra the model works with, in the order
\* sorted() gives them ("_" sorts before the lower-case letters).
ChakraNames ==
    << <<"_", "b", "a", "s", "e">>,
       <<"b", "u", "t", "t", "o", "n">>,
       <<"b", "u", "t", "t", "o", "n", "_", "g", "r", "o", "u", "p">>,
       <<"m", "u", "l", "t", "i", "_", "s", "e", "l", "e", "c", "t">> >>

\* What getattr(reflex.chakra, name) is found to be:
\*   absent         the name is not in dir(reflex.chakra)
\*   chakra_method  a method bound to a subclass of ChakraComponent
\*   chakra_class   a subclass of ChakraComponent
\*   other          anything else
\*   raises         getattr or the classification raises
ObjectKinds == {"absent", "chakra_method", "chakra_class", "other", "raises"}

\* The introspection results the runs of the model start from.
NamespaceChoices ==
    { <<"other", "chakra_method", "chakra_class", "absent">>,
      <<"chakra_class", "chakra_class", "absent", "other">>,
      <<"raises", "other", "chakra_method", "absent">>,
      <<"other", "chakra_method", "raises", "chakra_class">>,
      <<"absent", "other", "other", "absent">> }

whitelist ==
    { <<"C", "o", "l", "o", "r", "M", "o", "d", "e", "I", "c", "o", "n">>,
      <<"M", "u", "l", "t", "i", "S", "e", "l", "e", "c", "t">>,
      <<"M", "u", "l", "t", "i", "S", "e", "l", "e", "c", "t", "O", "p", "t", "i", "o", "n">>,
      <<"c", "o", "l", "o", "r", "_", "m", "o", "d", "e", "_", "i", "c", "o", "n">>,
      <<"m", "u", "l", "t", "i", "_", "s", "e", "l", "e", "c", "t">>,
      <<"m", "u", "l", "t", "i", "_", "s", "e", "l", "e", "c", "t", "_", "o", "p", "t", "i", "o", "n">> }

\* Mutant of the test below: no name counts as private.
NeverUnderscore(name) == FALSE

\* rx_chakra_name.startswith("_")
StartsWithUnderscore(name) == name # <<>> /\ name[1] = "_"

\* The outcome of a call that raised.
Raised == [raised |-> TRUE, names |-> {}]

RECURSIVE classify_swallowing(_, _, _)
\* Mutant of the loop below: an error of a name is swallowed, the name skipped.
classify_swallowing(ks, i, names_to_migrate) ==
    IF i > Len(ChakraNames) THEN [raised |-> FALSE, names |-> names_to_migrate]
    ELSE LET rx_chakra_name == ChakraNames[i] IN
         IF ks[i] = "absent" \/ StartsWithUnderscore(rx_chakra_name)
         THEN classify_swallowing(ks, i + 1, names_to_migrate)
         ELSE IF ks[i] = "raises"
         THEN classify_swallowing(ks, i + 1, names_to_migrate)
         ELSE IF ks[i] \in {"chakra_method", "chakra_class"}
         THEN classify_swallowing(ks, i + 1, names_to_migrate \cup {rx_chakra_name})
         ELSE IF rx_chakra_name \in whitelist
         THEN classify_swallowing(ks, i + 1, names_to_migrate \cup {rx_chakra_name})
         ELSE classify_swallowing(ks, i + 1, names_to_migrate)

RECURSIVE classify_without_whitelist(_, _, _)
\* Mutant of the loop below: the branch for the names of whitelist is missing.
classify_without_whitelist(ks, i, names_to_migrate) ==
    IF i > Len(ChakraNames) THEN [raised |-> FALSE, names |-> names_to_migrate]
    ELSE LET rx_chakra_name == ChakraNames[i] IN
         IF ks[i] = "absent" \/ StartsWithUnderscore(rx_chakra_name)
         THEN classify_without_whitelist(ks, i + 1, names_to_migrate)
         ELSE IF ks[i] = "raises"
         THEN Raised
         ELSE IF ks[i] \in {"chakra_method", "chakra_class"}
         THEN classify_without_whitelist(ks, i + 1, names_to_migrate \cup {rx_chakra_name})
         ELSE classify_without_whitelist(ks, i + 1, names_to_migrate)

RECURSIVE classify_from(_, _, _)
\* The loop "for rx_chakra_name in sorted(rx_chakra_names)" from its i-th name
\* on, names_to_migrate being the set collected so far.
classify_from(ks, i, names_to_migrate) ==
    IF i > Len(ChakraNames) THEN [raised |-> FALSE, names |-> names_to_migrate]
    ELSE LET rx_chakra_name == ChakraNames[i] IN
         IF ks[i] = "absent" \/ StartsWithUnderscore(rx_chakra_name)
         THEN classify_from(ks, i + 1, names_to_migrate)
         ELSE IF ks[i] = "raises"
         THEN Raised
         ELSE IF ks[i] \in {"chakra_method", "chakra_class"}
         THEN classify_from(ks, i + 1, names_to_migrate \cup {rx_chakra_name})
         ELSE IF rx_chakra_name \in whitelist
         THEN classify_from(ks, i + 1, names_to_migrate \cup {rx_chakra_name})
         ELSE classify_from(ks, i + 1, names_to_migrate)

\* _get_rx_chakra_component_to_migrate() for the introspection results ks.
get_rx_chakra_component_to_migrate(ks) == classify_from(ks, 1, {})

\* The elements of a sequence.
Range(f) == { f[i] : i \in DOMAIN f }

\* The orders in which a set (or a dict built from it) may be iterated.
IterationOrders(S) ==
    { f \in [1..Cardinality(S) -> S] : \A i, j \in 1..Cardinality(S) : f[i] = f[j] => i = j }

\* ------------------------------------------------------------ the rewriters

\* The table "updates" of migrate_to_reflex, in its iteration order.
updates ==
    << [old |-> <<"P", "y", "n", "e", "c", "o", "n", "e">>,
        new |-> <<"R", "e", "f", "l", "e", "x">>],
       [old |-> <<"p", "y", "n", "e", "c", "o", "n", "e", " ", "a", "s", " ", "p", "c">>,
        new |-> <<"r", "e", "f", "l", "e", "x", " ", "a", "s", " ", "r", "x">>],
       [old |-> <<"p", "y", "n", "e", "c", "o", "n", "e", ".", "i", "o">>,
        new |-> <<"r", "e", "f", "l", "e", "x", ".", "d", "e", "v">>],
       [old |-> <<"p", "y", "n", "e", "c", "o", "n", "e">>,
        new |-> <<"r", "e", "f", "l", "e", "x">>],
       [old |-> <<"p", "c", ".">>, new |-> <<"r", "x", ".">>],
       [old |-> <<"p", "c", "c", "o", "n", "f", "i", "g">>,
        new |-> <<"r", "x", "c", "o", "n", "f", "i", "g">>] >>

RECURSIVE ApplyPatterns(_, _)
\* for old, new in patterns.items(): line = re.sub(old, new, line)
\* names lists the names of the patterns in the dict's iteration order.
ApplyPatterns(names, line) ==
    IF names = <<>> THEN line
    ELSE ApplyPatterns(Tail(names), re_sub(Head(names), line))

RECURSIVE ApplyUpdates(_, _)
\* for old, new in updates.items(): line = line.replace(old, new)
ApplyUpdates(table, line) ==
    IF table = <<>> THEN line
    ELSE ApplyUpdates(Tail(table), str_replace(Head(table).old, Head(table).new, line))

\* What the body of the loop over the lines makes of a line.
RewriteLine(mode, names, line) ==
    IF mode = "rx_chakra" THEN ApplyPatterns(names, line) ELSE ApplyUpdates(updates, line)

\* The lines printed for the lines read.
RewriteLines(mode, names, lines) ==
    [k \in 1..Len(lines) |-> RewriteLine(mode, names, lines[k])]

\* ------------------------------------------------------------------ state

VARIABLES
    op,         \* the operation invoked: "rx_chakra" or "reflex"
    linesep,    \* os.linesep of the platform: <<"LF">> or <<"CR", "LF">>
    kinds,      \* what introspection finds for each of ChakraNames
    disk,       \* the bytes of every file, NoFile for a file that does not exist
    backup,     \* the bytes of every file's backup file (<path>.bak)
    original,   \* disk as it was when the operation started
    file_list,  \* the sequence of paths the operation loops over
    patterns,   \* the names of the dict patterns, in its iteration order
    idx,        \* the position in file_list of the file of the current iteration
    input,      \* the lines FileInput yields for the file of that iteration
    printed,    \* the lines printed so far for that file
    raised,     \* the exception that ended the operation: "none", "builder" or "io"
    action,     \* the answer to the question of migrate_to_reflex: "", "y" or "n"
    pc,         \* where the operation is
    cache_file, \* the bytes of the cache file of install_frontend_packages
    calls,      \* the calls of install_frontend_packages so far, with their outcomes
    reflex_json,    \* the content of reflex.json, NoJson if it does not exist
    web_pc,         \* where initialize_web_directory is
    project_hash,   \* the local variable project_hash of initialize_web_directory
    held,           \* the project hashes reflex.json has held so far
    inits,          \* the number of completed runs of initialize_web_directory
    checks,         \* the number of calls of check_latest_package_version so far
    last_check,     \* what the last of these calls found and did
    warns,          \* the warnings shown since reflex.json was last written anew
    question,       \* State.question
    chat_history,   \* State.chat_history: a list of <<question, answer>>
    answer,         \* the local variable answer of State.answer
    session,        \* the number of items received from the response stream
    chat_pc,        \* where State.answer is: "idle", "yielded", "returned", "raised"
    asked           \* State.question and State.chat_history when State.answer was
                    \* called, and the content chunks received since

\* The state of the on-disk cache of a procedure.
cacheVars == <<cache_file, calls>>

\* The state of reflex.json and of the functions that use it.
webVars == <<reflex_json, web_pc, project_hash, held, inits, checks, last_check,
            warns>>

\* The state of the chat app.
chatVars == <<question, chat_history, answer, session, chat_pc, asked>>

vars == <<op, linesep, kinds, disk, backup, original, file_list, patterns,
          idx, input, printed, raised, action, pc, cacheVars, webVars, chatVars>>

\* A file that does not exist.
NoFile == <<"ENOENT">>

\* constants.Config.PREVIOUS_FILE and constants.Config.FILE
PREVIOUS_FILE == "pcconfig.py"

FILE == "rxconfig.py"

\* The files matching <app_name>/**/*.py.
AppFiles == {"app/a.py", "app/b.py"}

Paths == AppFiles \cup {PREVIOUS_FILE, FILE}

LineSeps == { <<"LF">>, <<"CR", "LF">> }

\* File contents the runs start from.
FileContents ==
    { \* x = rx.button()\n
      <<"x", " ", "=", " ", "r", "x", ".", "b", "u", "t", "t", "o", "n", "(", ")", "LF">>,
      \* y = rx.button2\n
      <<"y", " ", "=", " ", "r", "x", ".", "b", "u", "t", "t", "o", "n", "2", "LF">>,
      \* rx.button_group\r\nrx.button
      <<"r", "x", ".", "b", "u", "t", "t", "o", "n", "_", "g", "r", "o", "u", "p", "CR", "LF",
        "r", "x", ".", "b", "u", "t", "t", "o", "n">>,
      \* import pynecone as pc\nrpc.call\n
      <<"i", "m", "p", "o", "r", "t", " ", "p", "y", "n", "e", "c", "o", "n", "e", " ",
        "a", "s", " ", "p", "c", "LF", "r", "p", "c", ".", "c", "a", "l", "l", "LF">> }

\* The content of the configuration file of a Pynecone project:
\* import pynecone as pc\nmypcconfig = pc.Config()\n
ConfigContent ==
    <<"i", "m", "p", "o", "r", "t", " ", "p", "y", "n", "e", "c", "o", "n", "e", " ",
      "a", "s", " ", "p", "c", "LF",
      "m", "y", "p", "c", "c", "o", "n", "f", "i", "g", " ", "=", " ",
      "p", "c", ".", "C", "o", "n", "f", "i", "g", "(", ")", "LF">>

\* The bytes in the output file once the lines ls have been printed.
Written(ls, sep) == WriteText(Flatten(ls), sep)

\* None, where a string is expected.
None == <<"None">>

\* None, where a project hash is expected (a hash is not negative).
NoHash == 0 - 1

\* reflex.json does not exist.
NoJson == [exists |-> FALSE, data |-> <<>>]

\* No call of check_latest_package_version has been made.
NoCheck == [current |-> 0, latest |-> 0, warned |-> FALSE]

\* No cached procedure is called.
CacheUnused == cache_file = NoFile /\ calls = <<>>

\* reflex.json does not exist and no function that uses it is called.
WebUnused ==
    /\ reflex_json = NoJson
    /\ web_pc = "idle"
    /\ project_hash = NoHash
    /\ held = {}
    /\ inits = 0
    /\ checks = 0
    /\ last_check = NoCheck
    /\ warns = 0

\* State.answer has not been called.
NotAsked == [question |-> <<>>, history |-> <<>>, received |-> <<>>]

\* The chat app has its initial state and no event is sent to it.
ChatUnused ==
    /\ question = <<>>
    /\ chat_history = <<>>
    /\ answer = <<>>
    /\ session = 0
    /\ chat_pc = "idle"
    /\ asked = NotAsked

\* Neither migration is invoked.
MigrationUnused ==
    /\ op = "none"
    /\ kinds = <<>>
    /\ disk = [p \in Paths |-> NoFile]
    /\ backup = [p \in Paths |-> NoFile]
    /\ original = disk
    /\ file_list = <<>>
    /\ patterns = <<>>
    /\ idx = 1
    /\ input = <<>>
    /\ printed = <<>>
    /\ raised = "none"
    /\ action = ""
    /\ pc = "none"

Init ==
    /\ CacheUnused /\ WebUnused /\ ChatUnused
    /\ op \in {"rx_chakra", "reflex"}
    /\ linesep \in LineSeps
    /\ kinds \in NamespaceChoices
    /\ \E contents \in [AppFiles -> FileContents], cfg \in {NoFile, ConfigContent} :
          disk = [p \in Paths |->
                    IF p \in AppFiles THEN contents[p]
                    ELSE IF p = PREVIOUS_FILE THEN cfg
                    ELSE NoFile]
    /\ backup = [p \in Paths |-> NoFile]
    /\ original = disk
    /\ file_list = <<>>
    /\ patterns = <<>>
    /\ idx = 1
    /\ input = <<>>
    /\ printed = <<>>
    /\ raised = "none"
    /\ action = ""
    /\ pc = "start"

\* glob.glob(file_pattern, recursive=True): the existing app files, in the
\* order the directory scan happens to give them.
GlobResults == IterationOrders({p \in AppFiles : disk[p] # NoFile})

\* ----------------------------------------------------- migrate_to_rx_chakra

\* file_list = glob.glob(...)
ChakraGlob ==
    /\ op = "rx_chakra" /\ pc = "start"
    /\ file_list' \in GlobResults
    /\ pc' = "build"
    /\ UNCHANGED <<cacheVars, webVars, chatVars>>
    /\ UNCHANGED <<action, op, linesep, kinds, disk, backup, original, patterns, idx, input,
                   printed, raised>>

\* Mutant of the action below: the names are collected in a list, and a name
\* that is both a legacy component and a name of whitelist is collected for
\* each of the two reasons.
ChakraBuildPatternsList ==
    /\ op = "rx_chakra" /\ pc = "build"
    /\ LET r    == get_rx_chakra_component_to_migrate(kinds)
           both == { ChakraNames[i] : i \in { j \in DOMAIN ChakraNames :
                       /\ ChakraNames[j] \in r.names \cap whitelist
                       /\ kinds[j] \in {"chakra_method", "chakra_class"} } }
       IN
         IF r.raised
         THEN pc' = "error" /\ raised' = "builder" /\ patterns' = patterns
         ELSE /\ pc' = "loop" /\ raised' = raised
              /\ patterns' \in { o1 \o o2 : o1 \in IterationOrders(r.names),
                                             o2 \in IterationOrders(both) }
    /\ UNCHANGED <<cacheVars, webVars, chatVars>>
    /\ UNCHANGED <<action, op, linesep, kinds, disk, backup, original, file_list, idx, input, printed>>

\* patterns = {... for name in _get_rx_chakra_component_to_migrate()}
\* An error of the builder propagates out of migrate_to_rx_chakra.
ChakraBuildPatterns ==
    /\ op = "rx_chakra" /\ pc = "build"
    /\ LET r == get_rx_chakra_component_to_migrate(kinds) IN
         IF r.raised
         THEN pc' = "error" /\ raised' = "builder" /\ patterns' = patterns
         ELSE pc' = "loop" /\ raised' = raised /\ patterns' \in IterationOrders(r.names)
    /\ UNCHANGED <<cacheVars, webVars, chatVars>>
    /\ UNCHANGED <<action, op, linesep, kinds, disk, backup, original, file_list, idx, input, printed>>

\* ---------------------------------------------------------- migrate_to_reflex

\* if not os.path.exists(constants.Config.PREVIOUS_FILE): return
ReflexNotApplicable ==
    /\ op = "reflex" /\ pc = "start"
    /\ disk[PREVIOUS_FILE] = NoFile
    /\ pc' = "done"
    /\ UNCHANGED <<cacheVars, webVars, chatVars>>
    /\ UNCHANGED <<action, op, linesep, kinds, disk, backup, original, file_list, patterns, idx,
                   input, printed, raised>>

\* Mutant of the action below: the answer "n" is not looked at, and the
\* operation goes on with the rename.
ReflexDeclinedProceeds ==
    /\ op = "reflex" /\ pc = "start"
    /\ disk[PREVIOUS_FILE] # NoFile
    /\ disk' = [disk EXCEPT ![FILE] = disk[PREVIOUS_FILE], ![PREVIOUS_FILE] = NoFile]
    /\ \E g \in GlobResults : file_list' = Append(g, FILE)
    /\ action' = "n"
    /\ pc' = "loop"
    /\ UNCHANGED <<cacheVars, webVars, chatVars>>
    /\ UNCHANGED <<op, linesep, kinds, backup, original, patterns, idx, input, printed,
                   raised>>

\* action = console.ask(...); if action == "n": return
ReflexDeclined ==
    /\ op = "reflex" /\ pc = "start"
    /\ disk[PREVIOUS_FILE] # NoFile
    /\ action' = "n"
    /\ pc' = "done"
    /\ UNCHANGED <<cacheVars, webVars, chatVars>>
    /\ UNCHANGED <<op, linesep, kinds, disk, backup, original, file_list, patterns, idx,
                   input, printed, raised>>

\* The user accepts (any answer but "n"; the prompt offers "y" and "n"):
\* os.rename(PREVIOUS_FILE, FILE), then the file list is the
\* glob result with the config file appended.
ReflexAccepted ==
    /\ op = "reflex" /\ pc = "start"
    /\ disk[PREVIOUS_FILE] # NoFile
    /\ disk' = [disk EXCEPT ![FILE] = disk[PREVIOUS_FILE], ![PREVIOUS_FILE] = NoFile]
    /\ \E g \in GlobResults : file_list' = Append(g, FILE)
    /\ action' = "y"
    /\ pc' = "loop"
    /\ UNCHANGED <<cacheVars, webVars, chatVars>>
    /\ UNCHANGED <<op, linesep, kinds, backup, original, patterns, idx, input, printed,
                   raised>>

\* -------------------------------------- the loop over the files (both operations)

CurrentFile == file_list[idx]

\* Mutant of the action below: the list of printed lines is not started
\* afresh for the file, so a file receives what was printed for the files
\* processed before it.
OpenFileKeepsPrinted ==
    /\ pc = "loop" /\ idx <= Len(file_list)
    /\ backup' = [backup EXCEPT ![CurrentFile] = disk[CurrentFile]]
    /\ disk' = [disk EXCEPT ![CurrentFile] = <<>>]
    /\ input' = ReadLines(disk[CurrentFile])
    /\ pc' = "lines"
    /\ UNCHANGED <<cacheVars, webVars, chatVars>>
    /\ UNCHANGED <<action, op, linesep, kinds, original, file_list, patterns, idx, raised,
                   printed>>

\* The first line of a file is asked for: FileInput removes a stale backup,
\* renames the file to its backup, opens the backup for reading and creates
\* the (empty) output file under the file's name.
OpenFile ==
    /\ pc = "loop" /\ idx <= Len(file_list)
    /\ backup' = [backup EXCEPT ![CurrentFile] = disk[CurrentFile]]
    /\ disk' = [disk EXCEPT ![CurrentFile] = <<>>]
    /\ input' = ReadLines(disk[CurrentFile])
    /\ printed' = <<>>
    /\ pc' = "lines"
    /\ UNCHANGED <<cacheVars, webVars, chatVars>>
    /\ UNCHANGED <<action, op, linesep, kinds, original, file_list, patterns, idx, raised>>

\* Mutant of the action below: the error is swallowed and the loop goes on
\* with the next file.
OpenFailsAtRenameContinues ==
    /\ pc = "loop" /\ idx <= Len(file_list)
    /\ raised' = "io"
    /\ idx' = idx + 1
    /\ UNCHANGED <<cacheVars, webVars, chatVars>>
    /\ UNCHANGED <<action, op, linesep, kinds, disk, backup, original, file_list, patterns,
                   input, printed, pc>>

\* os.rename(file, backup) raises OSError: nothing was changed yet; leaving
\* the with block unlinks the backup name.
OpenFailsAtRename ==
    /\ pc = "loop" /\ idx <= Len(file_list)
    /\ raised' = "io" /\ pc' = "error"
    /\ UNCHANGED <<cacheVars, webVars, chatVars>>
    /\ UNCHANGED <<action, op, linesep, kinds, disk, backup, original, file_list, patterns, idx,
                   input, printed>>

\* The file was renamed to its backup, then opening the backup for reading
\* (or the output for writing) raises: leaving the with block unlinks the
\* backup.
OpenFailsAfterRename ==
    /\ pc = "loop" /\ idx <= Len(file_list)
    /\ disk' = [disk EXCEPT ![CurrentFile] = NoFile]
    /\ raised' = "io" /\ pc' = "error"
    /\ UNCHANGED <<cacheVars, webVars, chatVars>>
    /\ UNCHANGED <<action, op, linesep, kinds, backup, original, file_list, patterns, idx,
                   input, printed>>

\* One iteration of the loop over the lines: every rule is applied to the
\* line, and the line is printed to the output file.
ProcessLine ==
    /\ pc = "lines" /\ Len(printed) < Len(input)
    /\ LET line == RewriteLine(op, patterns, input[Len(printed) + 1]) IN
         /\ printed' = Append(printed, line)
         /\ disk' = [disk EXCEPT ![CurrentFile] = Written(printed', linesep)]
    /\ UNCHANGED <<cacheVars, webVars, chatVars>>
    /\ UNCHANGED <<action, op, linesep, kinds, backup, original, file_list, patterns, idx, input,
                   raised, pc>>

\* Reading the next line or printing a line raises (a decoding error, a full
\* disk): leaving the with block closes the output with what was printed and
\* unlinks the backup.
IOErrorInFile ==
    /\ pc = "lines"
    /\ backup' = [backup EXCEPT ![CurrentFile] = NoFile]
    /\ raised' = "io" /\ pc' = "error"
    /\ UNCHANGED <<cacheVars, webVars, chatVars>>
    /\ UNCHANGED <<action, op, linesep, kinds, disk, original, file_list, patterns, idx, input, printed>>

\* Mutant of the action below: the directory is scanned again after each
\* file, and the app files found that are not yet in the list are added.
CloseFileRescans ==
    /\ pc = "lines" /\ Len(printed) = Len(input)
    /\ backup' = [backup EXCEPT ![CurrentFile] = NoFile]
    /\ idx' = idx + 1
    /\ pc' = "loop"
    /\ \E found \in IterationOrders({p \in AppFiles : disk[p] # NoFile /\ p \notin Range(file_list)}) :
          file_list' = file_list \o found
    /\ UNCHANGED <<cacheVars, webVars, chatVars>>
    /\ UNCHANGED <<action, op, linesep, kinds, disk, original, patterns, input, printed,
                   raised>>

\* The lines are exhausted: the output is closed, the backup is unlinked and
\* the loop goes on with the next file.
CloseFile ==
    /\ pc = "lines" /\ Len(printed) = Len(input)
    /\ backup' = [backup EXCEPT ![CurrentFile] = NoFile]
    /\ idx' = idx + 1
    /\ pc' = "loop"
    /\ UNCHANGED <<cacheVars, webVars, chatVars>>
    /\ UNCHANGED <<action, op, linesep, kinds, disk, original, file_list, patterns, input, printed,
                   raised>>

\* The process dies while a file is open: the output file holds the printed
\* lines that had been flushed, the backup stays.
Crash ==
    /\ pc = "lines"
    /\ \E k \in 0..Len(printed) :
          disk' = [disk EXCEPT ![CurrentFile] = Written(SubSeq(printed, 1, k), linesep)]
    /\ pc' = "crashed"
    /\ UNCHANGED <<cacheVars, webVars, chatVars>>
    /\ UNCHANGED <<action, op, linesep, kinds, backup, original, file_list, patterns, idx, input,
                   printed, raised>>

\* The loop over the files is exhausted: the operation returns.
Finish ==
    /\ pc = "loop" /\ idx > Len(file_list)
    /\ pc' = "done"
    /\ UNCHANGED <<cacheVars, webVars, chatVars>>
    /\ UNCHANGED <<action, op, linesep, kinds, disk, backup, original, file_list, patterns, idx,
                   input, printed, raised>>

Next ==
    \/ ChakraGlob
    \/ ChakraBuildPatterns
    \/ ReflexNotApplicable
    \/ ReflexDeclined
    \/ ReflexAccepted
    \/ OpenFile
    \/ OpenFailsAtRename
    \/ OpenFailsAfterRename
    \/ ProcessLine
    \/ IOErrorInFile
    \/ CloseFile
    \/ Crash
    \/ Finish

Spec == Init /\ [][Next]_vars

\* ------------------------------------------- the rewrite as a function of a file

\* The pieces generated file contents are composed of.
ChakraFragments ==
    { <<"r", "x", ".", "b", "u", "t", "t", "o", "n">>,
      <<"_", "g", "r", "o", "u", "p">>,
      <<"x">>, <<".">>, <<"LF">>, <<"CR">> }

ReflexFragments ==
    { <<"p", "c", ".">>,
      <<"p", "c", "c", "o", "n", "f", "i", "g">>,
      <<"p", "y", "n", "e", "c", "o", "n", "e">>,
      <<"P", "y", "n", "e", "c", "o", "n", "e">>,
      <<" ", "a", "s", " ", "p", "c">>,
      <<".", "i", "o">>,
      <<"r">>, <<"LF">> }

Fragments(mode) == IF mode = "rx_chakra" THEN ChakraFragments ELSE ReflexFragments

\* The file contents made of at most MaxFrags fragments.
Pool(mode) ==
    UNION { { Flatten(f) : f \in [1..n -> Fragments(mode)] } : n \in 0..MaxFrags }

\* The file the rewrite is applied to.
TheFile == "app/a.py"

RwInit ==
    /\ CacheUnused /\ WebUnused /\ ChatUnused
    /\ op \in {"rx_chakra", "reflex"}
    /\ linesep \in LineSeps
    /\ kinds \in (IF op = "rx_chakra" THEN NamespaceChoices
                  ELSE {<<"absent", "absent", "absent", "absent">>})
    /\ \E content \in Pool(op) :
          disk = [p \in Paths |-> IF p = TheFile THEN content ELSE NoFile]
    /\ backup = [p \in Paths |-> NoFile]
    /\ original = disk
    /\ file_list = <<TheFile>>
    /\ patterns = <<>>
    /\ idx = 1
    /\ input = <<>>
    /\ printed = <<>>
    /\ raised = "none"
    /\ action = ""
    /\ pc = "build"

\* The rule set is built: by the rule builder for migrate_to_rx_chakra (whose
\* error ends the run), the fixed table for migrate_to_reflex.
RwBuild ==
    /\ pc = "build"
    /\ IF op = "rx_chakra"
       THEN LET r == get_rx_chakra_component_to_migrate(kinds) IN
              IF r.raised
              THEN pc' = "error" /\ raised' = "builder" /\ patterns' = patterns
              ELSE pc' = "loop" /\ raised' = raised /\ patterns' \in IterationOrders(r.names)
       ELSE pc' = "loop" /\ raised' = raised /\ patterns' = patterns
    /\ UNCHANGED <<cacheVars, webVars, chatVars>>
    /\ UNCHANGED <<action, op, linesep, kinds, disk, backup, original, file_list, idx, input, printed>>

\* The with block for one file, run to its end without an error: the lines
\* are read from the backup, rewritten and printed to the output file, and
\* the backup is unlinked.
RwRewriteFile ==
    /\ pc = "loop" /\ idx <= 2
    /\ input' = ReadLines(disk[TheFile])
    /\ printed' = RewriteLines(op, patterns, input')
    /\ disk' = [disk EXCEPT ![TheFile] = Written(printed', linesep)]
    /\ idx' = idx + 1
    /\ UNCHANGED <<cacheVars, webVars, chatVars>>
    /\ UNCHANGED <<action, op, linesep, kinds, backup, original, file_list, patterns, raised, pc>>

RwNext ==
    \/ RwBuild
    \/ RwRewriteFile

\* The operation run on the file once (idx = 2) and once more (idx = 3).
SpecRewrite == RwInit /\ [][RwNext]_vars

\* ------------------------------------------ the rule builder on every namespace

\* The operation is migrate_to_rx_chakra on a project of one file, and
\* introspection may find anything for each name of ChakraNames.
BuildInit ==
    /\ CacheUnused /\ WebUnused /\ ChatUnused
    /\ op = "rx_chakra"
    /\ linesep = <<"LF">>
    /\ kinds \in [DOMAIN ChakraNames -> ObjectKinds]
    /\ \E content \in FileContents :
          disk = [p \in Paths |-> IF p = TheFile THEN content ELSE NoFile]
    /\ backup = [p \in Paths |-> NoFile]
    /\ original = disk
    /\ file_list = <<>>
    /\ patterns = <<>>
    /\ idx = 1
    /\ input = <<>>
    /\ printed = <<>>
    /\ raised = "none"
    /\ action = ""
    /\ pc = "start"

\* migrate_to_rx_chakra up to the loop over the files.
BuildNext ==
    \/ ChakraGlob
    \/ ChakraBuildPatterns

SpecBuild == BuildInit /\ [][BuildNext]_vars

\* ------------------------------------- files created while an operation runs

\* As Init, but only one of the app files exists when the operation starts.
EnvInit ==
    /\ CacheUnused /\ WebUnused /\ ChatUnused
    /\ op \in {"rx_chakra", "reflex"}
    /\ linesep \in LineSeps
    /\ kinds \in NamespaceChoices
    /\ \E content \in FileContents, cfg \in {NoFile, ConfigContent} :
          disk = [p \in Paths |->
                    IF p = TheFile THEN content
                    ELSE IF p = PREVIOUS_FILE THEN cfg
                    ELSE NoFile]
    /\ backup = [p \in Paths |-> NoFile]
    /\ original = disk
    /\ file_list = <<>>
    /\ patterns = <<>>
    /\ idx = 1
    /\ input = <<>>
    /\ printed = <<>>
    /\ raised = "none"
    /\ action = ""
    /\ pc = "start"

\* Something else (an editor, another process) creates an app file that
\* matches the glob pattern after glob.glob has returned and before the
\* operation ends.
FileAppears ==
    /\ pc \in {"build", "loop", "lines"}
    /\ \E p \in AppFiles, content \in FileContents :
          /\ disk[p] = NoFile /\ backup[p] = NoFile
          /\ disk' = [disk EXCEPT ![p] = content]
    /\ UNCHANGED <<cacheVars, webVars, chatVars>>
    /\ UNCHANGED <<action, op, linesep, kinds, backup, original, file_list, patterns, idx,
                   input, printed, raised, pc>>

EnvNext ==
    \/ Next
    \/ FileAppears

SpecEnv == EnvInit /\ [][EnvNext]_vars

\* ------------------------------------------------------------ cached_procedure

\* The number of calls of the cached procedure that are followed.
MaxCalls == 3

\* The packages a call may be given, in sorted order.
PackageNames == <<"a", "b">>

\* The values of config.json() a call may be given.
ConfigJsons ==
    { <<"{", "\"", "p", "\"", ":", "1", "}">>,
      <<"{", "\"", "p", "\"", ":", "2", "}">> }

RECURSIVE ReprItems(_)
\* The items of repr(list) for a list of strings, joined by ", ".
ReprItems(names) ==
    IF names = <<>> THEN <<>>
    ELSE <<"'", Head(names), "'">>
         \o (IF Len(names) > 1 THEN <<",", " ">> ELSE <<>>)
         \o ReprItems(Tail(names))

\* payload_fn=lambda p, c: f"{repr(sorted(list(p)))},{c.json()}"
payload_fn(p, c) ==
    <<"[">> \o ReprItems(SelectSeq(PackageNames, LAMBDA n : n \in p)) \o <<"]", ",">> \o c

\* _write_cached_procedure_file: the bytes of the cache file, written in
\* text mode.
write_cached_procedure_file(payload, sep) == WriteText(payload, sep)

\* _read_cached_procedure_file: the text of the cache file, read in text
\* mode, None if there is no cache file.
read_cached_procedure_file(bytes) ==
    IF bytes = NoFile THEN None ELSE UniversalNewlines(bytes)

\* _clear_cached_procedure_file
clear_cached_procedure_file(bytes) == NoFile

\* The wrapped function is being executed.
Running == calls # <<>> /\ calls[Len(calls)].outcome = "running"

CacheInit ==
    /\ MigrationUnused /\ WebUnused /\ ChatUnused
    /\ linesep \in LineSeps
    /\ cache_file = NoFile
    /\ calls = <<>>

\* Mutant of the action below: the payloads are not compared, the function
\* is executed at every call.
CachedCallAlways ==
    /\ ~Running /\ Len(calls) < MaxCalls
    /\ \E p \in SUBSET Range(PackageNames), c \in ConfigJsons :
          /\ cache_file' = clear_cached_procedure_file(cache_file)
          /\ calls' = Append(calls, [payload |-> payload_fn(p, c), outcome |-> "running"])
    /\ UNCHANGED <<op, linesep, kinds, disk, backup, original, file_list, patterns, idx,
                   input, printed, raised, action, pc, webVars, chatVars>>

\* Mutant of the action below: the cache file is not removed before the
\* function is executed.
CachedCallKeepsCache ==
    /\ ~Running /\ Len(calls) < MaxCalls
    /\ \E p \in SUBSET Range(PackageNames), c \in ConfigJsons :
          LET payload     == read_cached_procedure_file(cache_file)
              new_payload == payload_fn(p, c)
          IN  /\ cache_file' = cache_file
              /\ calls' = Append(calls, [payload |-> new_payload,
                                         outcome |-> IF payload # new_payload
                                                     THEN "running" ELSE "skipped"])
    /\ UNCHANGED <<op, linesep, kinds, disk, backup, original, file_list, patterns, idx,
                   input, printed, raised, action, pc, webVars, chatVars>>

\* _inner is called: the payload of the cache file and the payload of the
\* arguments are compared; if they differ the cache file is removed and the
\* wrapped function starts, otherwise the call returns at once.
CachedCall ==
    /\ ~Running /\ Len(calls) < MaxCalls
    /\ \E p \in SUBSET Range(PackageNames), c \in ConfigJsons :
          LET payload     == read_cached_procedure_file(cache_file)
              new_payload == payload_fn(p, c)
          IN  IF payload # new_payload
              THEN /\ cache_file' = clear_cached_procedure_file(cache_file)
                   /\ calls' = Append(calls, [payload |-> new_payload, outcome |-> "running"])
              ELSE /\ cache_file' = cache_file
                   /\ calls' = Append(calls, [payload |-> new_payload, outcome |-> "skipped"])
    /\ UNCHANGED <<op, linesep, kinds, disk, backup, original, file_list, patterns, idx,
                   input, printed, raised, action, pc, webVars, chatVars>>

\* The wrapped function returns: the payload is written to the cache file.
FuncReturns ==
    /\ Running
    /\ cache_file' = write_cached_procedure_file(calls[Len(calls)].payload, linesep)
    /\ calls' = [calls EXCEPT ![Len(calls)].outcome = "returned"]
    /\ UNCHANGED <<op, linesep, kinds, disk, backup, original, file_list, patterns, idx,
                   input, printed, raised, action, pc, webVars, chatVars>>

\* The wrapped function raises: the exception leaves _inner.
FuncRaises ==
    /\ Running
    /\ calls' = [calls EXCEPT ![Len(calls)].outcome = "raised"]
    /\ UNCHANGED <<op, linesep, kinds, disk, backup, original, file_list, patterns, idx,
                   input, printed, raised, action, pc, webVars, chatVars,
                   cache_file>>

CacheNext ==
    \/ CachedCall
    \/ FuncReturns
    \/ FuncRaises

SpecCache == CacheInit /\ [][CacheNext]_vars

\* ------------------------------------------------------------------ reflex.json

\* random.getrandbits(128) gives a hash in 0..MaxHash.
MaxHash == 2

Hashes == 0..MaxHash

\* The versions of the package are 1..MaxVersion, in the order of
\* version.parse.
MaxVersion == 2

Versions == 1..MaxVersion

\* The number of calls of check_latest_package_version that are followed.
MaxChecks == 3

\* The number of runs of initialize_web_directory that are followed.
MaxInits == 2

\* constants.Reflex.VERSION
VERSION == <<"0", ".", "4">>

\* str(datetime.now())
Now == <<"datetime.now()">>

\* dict.update: the keys of upd are set in data.
DictUpdate(data, upd) ==
    [k \in DOMAIN data \cup DOMAIN upd |-> IF k \in DOMAIN upd THEN upd[k] ELSE data[k]]

\* path_ops.update_json_file(constants.Reflex.JSON, upd): the file is created
\* if it does not exist, and the keys of upd are set in its object.
update_json_file(json, upd) ==
    [exists |-> TRUE, data |-> DictUpdate(json.data, upd)]

\* data.get("last_version_check_datetime")
GetLastCheck(data) ==
    IF "last_version_check_datetime" \in DOMAIN data
    THEN data["last_version_check_datetime"] ELSE None

\* not last_version_check_datetime
Falsy(last) == last = None \/ last = <<>>

\* get_project_hash()
get_project_hash(json) ==
    IF ~json.exists THEN NoHash ELSE json.data["project_hash"]

\* init_reflex_json(project_hash), random being the value getrandbits gives
\* if it is called: reflex.json afterwards.
init_reflex_json(json, hash, random) ==
    update_json_file(json, [version |-> VERSION,
                            project_hash |-> IF hash # NoHash THEN hash ELSE random])

\* Mutant of the function below: the datetime of the check is not recorded.
get_last_reflex_version_check_datetime(json) ==
    IF ~json.exists THEN [last |-> None, json |-> json]
    ELSE [last |-> GetLastCheck(json.data), json |-> json]

\* get_or_set_last_reflex_version_check_datetime(): the value returned and
\* reflex.json afterwards.
get_or_set_last_reflex_version_check_datetime(json) ==
    IF ~json.exists THEN [last |-> None, json |-> json]
    ELSE LET last_version_check_datetime == GetLastCheck(json.data) IN
         [last |-> last_version_check_datetime,
          json |-> IF Falsy(last_version_check_datetime)
                   THEN update_json_file(json,
                            DictUpdate(json.data, [last_version_check_datetime |-> Now]))
                   ELSE json]

WebInit ==
    /\ MigrationUnused /\ CacheUnused /\ WebUnused /\ ChatUnused
    /\ linesep = <<"LF">>

\* initialize_web_directory starts: project_hash = get_project_hash()
GetProjectHash ==
    /\ web_pc = "idle" /\ inits < MaxInits
    /\ project_hash' = get_project_hash(reflex_json)
    /\ web_pc' = "hash_read"
    /\ UNCHANGED <<op, linesep, kinds, disk, backup, original, file_list, patterns, idx,
                   input, printed, raised, action, pc, cacheVars, chatVars>>
    /\ UNCHANGED <<reflex_json, held, inits, checks, last_check, warns>>

\* Mutant of the action below: the hash is read after the template was
\* copied.
CopyWebTemplateThenRead ==
    /\ web_pc = "hash_read"
    /\ \/ reflex_json' = NoJson /\ warns' = 0
       \/ reflex_json' = reflex_json /\ warns' = warns
    /\ project_hash' = get_project_hash(reflex_json')
    /\ web_pc' = "copied"
    /\ UNCHANGED <<op, linesep, kinds, disk, backup, original, file_list, patterns, idx,
                   input, printed, raised, action, pc, cacheVars, chatVars>>
    /\ UNCHANGED <<held, inits, checks, last_check>>

\* path_ops.cp(WEB_TEMPLATE, WEB), initialize_package_json(), mkdir and
\* update_next_config(): the web directory is replaced by the template, in
\* which there is no reflex.json; a copy that keeps the files the template
\* does not have is allowed too.
CopyWebTemplate ==
    /\ web_pc = "hash_read"
    /\ \/ reflex_json' = NoJson /\ warns' = 0
       \/ reflex_json' = reflex_json /\ warns' = warns
    /\ web_pc' = "copied"
    /\ UNCHANGED <<op, linesep, kinds, disk, backup, original, file_list, patterns, idx,
                   input, printed, raised, action, pc, cacheVars, chatVars>>
    /\ UNCHANGED <<project_hash, held, inits, checks, last_check>>

\* init_reflex_json(project_hash=project_hash), and initialize_web_directory
\* returns.
InitReflexJson ==
    /\ web_pc = "copied"
    /\ \E random \in Hashes :
          reflex_json' = init_reflex_json(reflex_json, project_hash, random)
    /\ held' = held \cup {reflex_json'.data["project_hash"]}
    /\ inits' = inits + 1
    /\ project_hash' = NoHash
    /\ web_pc' = "idle"
    /\ UNCHANGED <<op, linesep, kinds, disk, backup, original, file_list, patterns, idx,
                   input, printed, raised, action, pc, cacheVars, chatVars>>
    /\ UNCHANGED <<checks, last_check, warns>>

\* check_latest_package_version(package_name), the versions being found.
CheckLatestPackageVersion ==
    /\ web_pc = "idle" /\ checks < MaxChecks
    /\ \E current_version, latest_version \in Versions :
          LET outdated == current_version < latest_version
              r        == get_or_set_last_reflex_version_check_datetime(reflex_json)
              warn     == outdated /\ Falsy(r.last)
          IN  /\ reflex_json' = IF outdated THEN r.json ELSE reflex_json
              /\ last_check' = [current |-> current_version, latest |-> latest_version,
                                warned |-> warn]
              /\ warns' = IF warn /\ reflex_json.exists THEN warns + 1 ELSE warns
    /\ checks' = checks + 1
    /\ UNCHANGED <<op, linesep, kinds, disk, backup, original, file_list, patterns, idx,
                   input, printed, raised, action, pc, cacheVars, chatVars>>
    /\ UNCHANGED <<web_pc, project_hash, held, inits>>

\* check_latest_package_version(package_name) when finding a version raises
\* (no network, no such distribution): except Exception: pass
CheckRaises ==
    /\ web_pc = "idle" /\ checks < MaxChecks
    /\ last_check' = NoCheck
    /\ checks' = checks + 1
    /\ UNCHANGED <<op, linesep, kinds, disk, backup, original, file_list, patterns, idx,
                   input, printed, raised, action, pc, cacheVars, chatVars>>
    /\ UNCHANGED <<reflex_json, web_pc, project_hash, held, inits, warns>>

WebNext ==
    \/ GetProjectHash
    \/ CopyWebTemplate
    \/ InitReflexJson
    \/ CheckLatestPackageVersion
    \/ CheckRaises

SpecWeb == WebInit /\ [][WebNext]_vars

\* ------------------------------------------------------------- State.answer

\* The number of items of a response stream that are followed.
MaxItems == 3

\* The number of calls of State.answer and of content chunks that are
\* followed in a behaviour.
MaxEvents == 5

\* The questions the user may type.
Questions == { <<"h", "i">> }

\* The content strings of the items of a response stream.
Chunks == { <<"a">>, <<"b">> }

RECURSIVE AnswerChars(_)
\* The number of characters of the answers of a chat history.
AnswerChars(history) ==
    IF history = <<>> THEN 0
    ELSE Len(Head(history)[2]) + AnswerChars(Tail(history))

\* The calls and the content chunks so far.
Events == Len(chat_history) + AnswerChars(chat_history)

ChatInit ==
    /\ MigrationUnused /\ CacheUnused /\ WebUnused /\ ChatUnused
    /\ linesep = <<"LF">>

\* The user types a question: State.set_question.
SetQuestion ==
    /\ chat_pc # "yielded"
    /\ \E q \in Questions : q # question /\ question' = q
    /\ chat_pc' = "idle"
    /\ UNCHANGED <<op, linesep, kinds, disk, backup, original, file_list, patterns, idx,
                   input, printed, raised, action, pc, cacheVars, webVars>>
    /\ UNCHANGED <<chat_history, answer, session, asked>>

\* State.answer is called and runs to its first yield: the stream is
\* created, the entry (question, "") is appended and the question cleared.
AnswerCall ==
    /\ chat_pc # "yielded" /\ Events < MaxEvents
    /\ session' = 0
    /\ answer' = <<>>
    /\ chat_history' = Append(chat_history, <<question, <<>>>>)
    /\ question' = <<>>
    /\ chat_pc' = "yielded"
    /\ asked' = [question |-> question, history |-> chat_history, received |-> <<>>]
    /\ UNCHANGED <<op, linesep, kinds, disk, backup, original, file_list, patterns, idx,
                   input, printed, raised, action, pc, cacheVars, webVars>>

\* State.answer is called and openai.ChatCompletion.create raises.
CreateRaises ==
    /\ chat_pc # "yielded" /\ Events < MaxEvents
    /\ chat_pc' = "raised"
    /\ asked' = [question |-> question, history |-> chat_history, received |-> <<>>]
    /\ UNCHANGED <<op, linesep, kinds, disk, backup, original, file_list, patterns, idx,
                   input, printed, raised, action, pc, cacheVars, webVars>>
    /\ UNCHANGED <<question, chat_history, answer, session>>

\* State.answer, resumed, receives an item whose delta has no attribute
\* content: the loop goes on with the next item.
AnswerSkip ==
    /\ chat_pc = "yielded" /\ session < MaxItems
    /\ session' = session + 1
    /\ UNCHANGED <<op, linesep, kinds, disk, backup, original, file_list, patterns, idx,
                   input, printed, raised, action, pc, cacheVars, webVars>>
    /\ UNCHANGED <<question, chat_history, answer, chat_pc, asked>>

\* Mutant of the action below: the answer is set to the chunk received.
AnswerChunkOverwrites ==
    /\ chat_pc = "yielded" /\ session < MaxItems /\ Events < MaxEvents
    /\ \E content \in Chunks :
          /\ answer' = content
          /\ chat_history' = [chat_history EXCEPT ![Len(chat_history)] =
                                 <<chat_history[Len(chat_history)][1], answer'>>]
          /\ asked' = [asked EXCEPT !.received = Append(@, content)]
    /\ session' = session + 1
    /\ UNCHANGED <<op, linesep, kinds, disk, backup, original, file_list, patterns, idx,
                   input, printed, raised, action, pc, cacheVars, webVars>>
    /\ UNCHANGED <<question, chat_pc>>

\* State.answer, resumed, receives an item with a content string and runs
\* to its next yield: the string is added to the answer and the last entry
\* of the history is replaced.
AnswerChunk ==
    /\ chat_pc = "yielded" /\ session < MaxItems /\ Events < MaxEvents
    /\ \E content \in Chunks :
          /\ answer' = answer \o content
          /\ chat_history' = [chat_history EXCEPT ![Len(chat_history)] =
                                 <<chat_history[Len(chat_history)][1], answer'>>]
          /\ asked' = [asked EXCEPT !.received = Append(@, content)]
    /\ session' = session + 1
    /\ UNCHANGED <<op, linesep, kinds, disk, backup, original, file_list, patterns, idx,
                   input, printed, raised, action, pc, cacheVars, webVars>>
    /\ UNCHANGED <<question, chat_pc>>

\* State.answer, resumed, returns: the stream is exhausted, or the item
\* received has the content None.
AnswerReturn ==
    /\ chat_pc = "yielded"
    /\ chat_pc' = "returned"
    /\ UNCHANGED <<op, linesep, kinds, disk, backup, original, file_list, patterns, idx,
                   input, printed, raised, action, pc, cacheVars, webVars>>
    /\ UNCHANGED <<question, chat_history, answer, session, asked>>

\* State.answer is resumed and receiving the next item raises.
StreamRaises ==
    /\ chat_pc = "yielded"
    /\ chat_pc' = "raised"
    /\ UNCHANGED <<op, linesep, kinds, disk, backup, original, file_list, patterns, idx,
                   input, printed, raised, action, pc, cacheVars, webVars>>
    /\ UNCHANGED <<question, chat_history, answer, session, asked>>

ChatNext ==
    \/ SetQuestion
    \/ AnswerCall
    \/ CreateRaises
    \/ AnswerSkip
    \/ AnswerChunk
    \/ AnswerReturn
    \/ StreamRaises

SpecChat == ChatInit /\ [][ChatNext]_vars

\* ------------------------------------------------------ terms of the claims

\* The content a file of the file list had when the operation started (the
\* config file was PREVIOUS_FILE then).
OriginalContent(p) ==
    IF op = "reflex" /\ p = FILE THEN original[PREVIOUS_FILE] ELSE original[p]

\* The names that have a rule.
RuleNames == Range(patterns)

\* rx.<name> occurs in line at position i with no identifier character
\* immediately before or after it.
TokenAt(line, i, name) ==
    LET tok  == <<"r", "x", ".">> \o name
        last == i + Len(tok) - 1
    IN  /\ i >= 1 /\ last <= Len(line)
        /\ \A j \in 1..Len(tok) : line[i + j - 1] = tok[j]
        /\ (i > 1 => line[i - 1] \notin WordChars)
        /\ (last < Len(line) => line[last + 1] \notin WordChars)

\* The positions of line where the token of some rule starts.
TokenPositions(line) ==
    { i \in 1..Len(line) : \E name \in RuleNames : TokenAt(line, i, name) }

\* rx.<name> occurs in line at position i inside a longer identifier.
InsideIdentifierAt(line, i, name) ==
    LET tok  == <<"r", "x", ".">> \o name
        last == i + Len(tok) - 1
    IN  /\ i >= 1 /\ last <= Len(line)
        /\ \A j \in 1..Len(tok) : line[i + j - 1] = tok[j]
        /\ \/ i > 1 /\ line[i - 1] \in WordChars
           \/ last < Len(line) /\ line[last + 1] \in WordChars

\* line with "chakra." put after the "rx." of every token of a rule, and
\* nothing else changed.
ExpectedLine(line) ==
    Flatten([i \in 1..Len(line) |->
               IF i - 2 \in TokenPositions(line)
               THEN <<".", "c", "h", "a", "k", "r", "a", ".">>
               ELSE <<line[i]>>])

\* The bytes of a file cut into lines, each with its line ending.
ByteLines(content) == SplitLines(content, <<>>)

\* old occurs in line at position i as a whole token: where old begins or
\* ends with an identifier character, no identifier character is next to it.
WholeOldAt(line, i, old) ==
    LET last == i + Len(old) - 1
    IN  /\ i >= 1 /\ last <= Len(line)
        /\ \A j \in 1..Len(old) : line[i + j - 1] = old[j]
        /\ ~(old[1] \in WordChars /\ i > 1 /\ line[i - 1] \in WordChars)
        /\ ~(old[Len(old)] \in WordChars /\ last < Len(line) /\ line[last + 1] \in WordChars)

\* line has a token a rule of the operation is to rewrite.
HasToken(line) ==
    IF op = "rx_chakra" THEN TokenPositions(line) # {}
    ELSE \E r \in Range(updates) : \E i \in 1..Len(line) : WholeOldAt(line, i, r.old)

\* Classifying some name raises (names with a leading underscore are never
\* classified).
ClassificationRaises ==
    \E i \in 1..Len(ChakraNames) : kinds[i] = "raises" /\ ChakraNames[i][1] # "_"

\* ------------------------------------------------------------------ claims

\* C1: if a step of rewriting a file fails or the process crashes while a
\* file is being rewritten, the file on disk holds exactly its original
\* content or exactly the fully rewritten content.
C1_AtomicRewrite ==
    pc \in {"error", "crashed"} =>
        \A p \in Range(file_list) :
            \/ disk[p] = OriginalContent(p)
            \/ disk[p] = Written(RewriteLines(op, patterns, ReadLines(OriginalContent(p))),
                                 linesep)

\* C2: migrate_to_rx_chakra rewrites rx.<name> to rx.chakra.<name> exactly
\* where it stands as a whole token, for every name of the rule set; an
\* occurrence inside a longer identifier is left as it is.
C2_WholeTokenMatching ==
    op = "rx_chakra" =>
        \A k \in 1..Len(printed) : printed[k] = ExpectedLine(input[k])

\* C2 witness: a line was rewritten that holds a token of a rule, and with
\* it an occurrence of a rule's rx.<name> inside a longer identifier.
C2_Witness ==
    /\ op = "rx_chakra"
    /\ \E k \in 1..Len(printed) :
          /\ TokenPositions(input[k]) # {}
          /\ \E i \in 1..Len(input[k]) : \E name \in RuleNames :
                InsideIdentifierAt(input[k], i, name)
          /\ printed[k] # input[k]

\* C3: rewriting a file that was already rewritten with the same rule set
\* changes nothing.
C3_Idempotent ==
    [][(op = "rx_chakra" /\ pc = "loop" /\ idx = 2) => disk'[TheFile] = disk[TheFile]]_vars

\* C3 witness: the rewrite ran twice on a file whose content the first run
\* changed by rewriting a token.
C3_Witness ==
    /\ op = "rx_chakra" /\ idx = 3
    /\ linesep = <<"LF">>
    /\ Len(disk[TheFile]) > Len(original[TheFile])

\* C4: when classifying a name raises, migrate_to_rx_chakra ends with the
\* error, no rule set is applied and no file is modified.
C4_FailFastBuild ==
    (op = "rx_chakra" /\ ClassificationRaises) =>
        /\ disk = original
        /\ backup = [p \in Paths |-> NoFile]
        /\ patterns = <<>>
        /\ pc \in {"start", "build", "error"}
        /\ pc = "error" <=> raised = "builder"

\* C4 witness: the rule builder raised and the operation ended.
C4_Witness ==
    /\ op = "rx_chakra" /\ ClassificationRaises
    /\ raised = "builder" /\ pc = "error"
    /\ file_list # <<>>

\* C5: a processed file has as many lines as before, and every line without
\* a matching token is byte-for-byte what it was, line ending included.
C5_LineStructurePreserved ==
    (pc = "loop" /\ idx = 2) =>
        LET old == ByteLines(original[TheFile])
            new == ByteLines(disk[TheFile])
        IN  /\ Len(new) = Len(old)
            /\ \A k \in 1..Len(old) : ~HasToken(old[k]) => new[k] = old[k]

\* C6: a file without any token matching a pattern of the rule set has the
\* same content after the rewrite.
C6_NoOpOnNonMatching ==
    (op = "rx_chakra" /\ pc = "loop" /\ idx = 2
        /\ \A k \in 1..Len(input) : ~HasToken(input[k]))
    => disk[TheFile] = original[TheFile]

\* C7: migrate_to_reflex replaces an old string of its table only where it
\* stands as a whole token: a line without such a token is left unchanged.
C7_StaticWholeTokens ==
    op = "reflex" =>
        \A k \in 1..Len(printed) : ~HasToken(input[k]) => printed[k] = input[k]

\* C8: when a file cannot be opened, read or written, the operation ends with
\* the error and no file later in the file list is opened or modified.
C8_IOErrorAborts ==
    raised = "io" =>
        /\ pc = "error"
        /\ \A j \in (idx + 1)..Len(file_list) :
              /\ disk[file_list[j]] = OriginalContent(file_list[j])
              /\ backup[file_list[j]] = NoFile

\* C8 witness: an I/O error ended the operation at a file that is not the
\* last of the file list.
C8_Witness ==
    /\ raised = "io" /\ pc = "error"
    /\ idx < Len(file_list)

\* C9: when the operation ends with an error, every file of the file set
\* holds its original content.
C9_NoPartialOutput ==
    pc = "error" =>
        \A p \in Range(file_list) : disk[p] = OriginalContent(p)

\* C10: the order in which the rules are applied to a line does not change
\* the rewritten line, and every token is rewritten once: the line grows by
\* the length of "chakra." for each token it holds.
C10_RuleOrderIrrelevant ==
    op = "rx_chakra" =>
        \A k \in 1..Len(printed) :
            /\ \A order \in IterationOrders(RuleNames) :
                  ApplyPatterns(order, input[k]) = printed[k]
            /\ Len(printed[k]) = Len(input[k]) + 7 * Cardinality(TokenPositions(input[k]))

\* C10 witness: two rules, the name of one a prefix of the other's, were
\* applied to a line that holds the token of the longer name.
C10_Witness ==
    /\ op = "rx_chakra" /\ Len(patterns) = 2
    /\ \E k \in 1..Len(printed) : \E i \in 1..Len(input[k]) :
          /\ TokenAt(input[k], i, ChakraNames[3])
          /\ ChakraNames[2] \in RuleNames
          /\ printed[k] # input[k]

\* The content the operation gives a file whose content was content, with
\* the rules taken in the order rule_order.
RewrittenContent(rule_order, content) ==
    Written(RewriteLines(op, rule_order, ReadLines(content)), linesep)

\* C11: once the operation has returned, the content of every file of the
\* file list is determined by the content the file had when the operation
\* started and by the set of rules: it is the rewrite of that content,
\* whatever the position of the file in the order the files were processed
\* in and whatever the other files hold.
C11_FileOrderIrrelevant ==
    pc = "done" =>
        \A p \in Range(file_list) : \A rule_order \in IterationOrders(RuleNames) :
            disk[p] = RewrittenContent(rule_order, OriginalContent(p))

\* Two different app files were processed, the one that sorts last first,
\* and the run changed both.
C11_Witness ==
    /\ pc = "done" /\ op = "rx_chakra"
    /\ Len(file_list) = 2 /\ file_list[1] = "app/b.py"
    /\ original["app/a.py"] # original["app/b.py"]
    /\ \A p \in AppFiles : disk[p] # original[p]

\* The result of introspection for the i-th name of ChakraNames makes it a
\* legacy component: a subclass of ChakraComponent, or a method bound to one.
IsLegacy(i) == kinds[i] \in {"chakra_method", "chakra_class"}

\* The rule set has been built by a call of the builder that returned.
RulesBuilt == op = "rx_chakra" /\ pc = "loop"

Qualifying ==
    { i \in DOMAIN ChakraNames :
        /\ kinds[i] # "absent"
        /\ ~StartsWithUnderscore(ChakraNames[i])
        /\ (IsLegacy(i) \/ ChakraNames[i] \in whitelist) }

\* C13: the rule set has exactly one rule for each distinct qualifying name:
\* no name has two rules, and there are as many rules as qualifying names,
\* a name that is both classified as legacy and in the allow-list counting
\* once.
C13_OneRulePerName ==
    RulesBuilt =>
        /\ \A i, j \in DOMAIN patterns : patterns[i] = patterns[j] => i = j
        /\ Len(patterns) = Cardinality(Qualifying)

\* Two names qualify, one of them both as a legacy component and as a name
\* of the allow-list, and there are two rules.
C13_Witness ==
    /\ RulesBuilt
    /\ Cardinality(Qualifying) = 2
    /\ \E i \in Qualifying : IsLegacy(i) /\ ChakraNames[i] \in whitelist
    /\ \E i \in Qualifying : IsLegacy(i) /\ ChakraNames[i] \notin whitelist
    /\ Len(patterns) = 2

\* rx.<name>
LegacyReference(name) == <<"r", "x", ".">> \o name

\* C14: a public name of the legacy namespace that refers to a subclass of
\* ChakraComponent, or to a method bound to such a class, has a rule, which
\* rewrites rx.<name> to rx.chakra.<name>; a name that begins with an
\* underscore has no rule, whatever it refers to.
C14_DerivedMembership ==
    RulesBuilt =>
        \A i \in DOMAIN ChakraNames :
            LET name == ChakraNames[i] IN
            /\ (IsLegacy(i) /\ name[1] # "_") =>
                  /\ name \in RuleNames
                  /\ ApplyPatterns(patterns, LegacyReference(name))
                        = <<"r", "x", ".", "c", "h", "a", "k", "r", "a", ".">> \o name
            /\ name[1] = "_" => name \notin RuleNames

\* A name with an underscore refers to a legacy class, a public name to a
\* bound method of one and another to a legacy class: the two public names
\* have rules.
C14_Witness ==
    /\ RulesBuilt
    /\ \E i \in DOMAIN ChakraNames : ChakraNames[i][1] = "_" /\ kinds[i] = "chakra_class"
    /\ \E i, j \in DOMAIN ChakraNames :
          /\ kinds[i] = "chakra_method" /\ kinds[j] = "chakra_class"
          /\ {ChakraNames[i], ChakraNames[j]} \subseteq RuleNames

C19_NothingUnlessAccepted ==
    (op = "reflex" /\ (original[PREVIOUS_FILE] = NoFile \/ action = "n")) =>
        /\ disk = original
        /\ backup = [p \in Paths |-> NoFile]
        /\ file_list = <<>>
        /\ pc \in {"start", "done"}

\* The old config file exists, an app file has text the operation would
\* rewrite, the user answered "n" and the operation has returned.
C19_Witness ==
    /\ op = "reflex" /\ action = "n" /\ pc = "done"
    /\ original[PREVIOUS_FILE] # NoFile
    /\ \E p \in AppFiles : \E i \in DOMAIN ReadLines(disk[p]) :
          HasToken(ReadLines(disk[p])[i])

\* The last element of a non-empty sequence.
Last(seq) == seq[Len(seq)]

\* A call has just been made.
CallMade == Len(calls') = Len(calls) + 1

\* The text stored in the cache file differs from payload, or there is no
\* cache file.
StoredDiffers(payload) ==
    cache_file = NoFile \/ UniversalNewlines(cache_file) # payload

\* C16: a call of the cached procedure executes the wrapped function if and
\* only if the payload of its arguments differs from the payload stored in
\* the cache file or there is no cache file; and a call that follows a
\* successful call with the same payload does not execute the function
\* again.
C16_RunsOnlyWhenPayloadChanged ==
    [][ CallMade =>
          /\ Last(calls').outcome = "running" <=> StoredDiffers(Last(calls').payload)
          /\ Last(calls').outcome \in {"running", "skipped"}
          /\ ( /\ calls # <<>>
               /\ Last(calls).outcome \in {"returned", "skipped"}
               /\ Last(calls).payload = Last(calls').payload )
                => Last(calls').outcome = "skipped" ]_vars

\* A call executed the function and returned, the next call had the same
\* payload and was skipped, and a third call with another payload executes
\* the function.
C16_Witness ==
    /\ Len(calls) = 3
    /\ calls[1].outcome = "returned"
    /\ calls[2].outcome = "skipped" /\ calls[2].payload = calls[1].payload
    /\ calls[3].outcome = "running" /\ calls[3].payload # calls[1].payload

\* The calls in which the wrapped function was executed.
Executions == SelectSeq(calls, LAMBDA call : call.outcome # "skipped")

\* C20: the cache file exists only if the most recent execution of the
\* wrapped function returned normally, and then it holds the payload of that
\* execution (so there is no cache file while the function runs or after it
\* raised); and the call that follows a call whose function raised executes
\* the function again.
C20_CacheValid ==
    /\ [](cache_file # NoFile =>
            /\ Executions # <<>>
            /\ Last(Executions).outcome = "returned"
            /\ UniversalNewlines(cache_file) = Last(Executions).payload)
    /\ [][(CallMade /\ calls # <<>> /\ Last(calls).outcome = "raised")
             => Last(calls').outcome = "running"]_vars

\* A call for a payload returned and left the cache file; the function of
\* the next call, for another payload, raised, and there is no cache file;
\* the call after that, for the same payload, executes the function.
C20_Witness ==
    /\ Len(calls) = 3
    /\ calls[1].outcome = "returned"
    /\ calls[2].outcome = "raised" /\ calls[2].payload # calls[1].payload
    /\ calls[3].outcome = "running" /\ calls[3].payload = calls[2].payload
    /\ cache_file = NoFile

\* C17: reflex.json never holds two different project hashes over time: the
\* hash it holds after any run of initialize_web_directory is the hash it
\* held first.
C17_ProjectHashReused ==
    /\ Cardinality(held) <= 1
    /\ reflex_json.exists => reflex_json.data["project_hash"] \in held

\* initialize_web_directory has run twice, and reflex.json holds the hash 0
\* that the first run generated.
C17_Witness ==
    /\ inits = 2 /\ web_pc = "idle"
    /\ reflex_json.exists /\ reflex_json.data["project_hash"] = 0
    /\ held = {0}

\* reflex.json has the field last_version_check_datetime.
HasLastCheck(json) ==
    json.exists /\ "last_version_check_datetime" \in DOMAIN json.data

\* C18: a call of check_latest_package_version warns only if the installed
\* version is older than the latest one and reflex.json did not have
\* last_version_check_datetime when the call was made; a call that finds an
\* older installed version and reflex.json leaves the field set; and while
\* reflex.json exists and is not written anew, at most one call warns.
C18_WarnsOnce ==
    /\ [](warns <= 1)
    /\ [][checks' = checks + 1 =>
             /\ last_check'.warned =>
                   (last_check'.current < last_check'.latest /\ ~HasLastCheck(reflex_json))
             /\ (last_check'.current < last_check'.latest /\ reflex_json.exists)
                   => HasLastCheck(reflex_json')]_vars

\* With reflex.json present, a call warned, and the last call found the
\* installed version older again and did not warn.
C18_Witness ==
    /\ warns = 1 /\ checks >= 2
    /\ reflex_json.exists
    /\ last_check.current < last_check.latest /\ ~last_check.warned

\* old occurs somewhere in line.
Contains(line, old) == \E i \in 1..Len(line) : StartsAt(line, i, old)

\* The old strings of the table that occur in some line of content.
OldStringsIn(content) ==
    LET lines == ByteLines(content) IN
    { u.old : u \in { r \in Range(updates) :
                        \E k \in DOMAIN lines : Contains(lines[k], r.old) } }

\* What the rules make of the line "import pynecone as pc".
ImportLineRewritten ==
    ApplyUpdates(updates,
        <<"i", "m", "p", "o", "r", "t", " ", "p", "y", "n", "e", "c", "o", "n", "e", " ",
          "a", "s", " ", "p", "c">>)

\* What the rules make of "pynecone.io".
SiteRewritten ==
    ApplyUpdates(updates, <<"p", "y", "n", "e", "c", "o", "n", "e", ".", "i", "o">>)

\* C21: once migrate_to_reflex has rewritten a file, no line of the file
\* contains an old string of the table; and the rules being applied in table
\* order, "import pynecone as pc" becomes "import reflex as rx" and
\* "pynecone.io" becomes "reflex.dev".
C21_ReflexComplete ==
    /\ (op = "reflex" /\ pc = "loop" /\ idx >= 2) => OldStringsIn(disk[TheFile]) = {}
    /\ ImportLineRewritten
          = <<"i", "m", "p", "o", "r", "t", " ", "r", "e", "f", "l", "e", "x", " ",
              "a", "s", " ", "r", "x">>
    /\ SiteRewritten = <<"r", "e", "f", "l", "e", "x", ".", "d", "e", "v">>

\* A file in which three different old strings occurred has been rewritten.
C21_Witness ==
    /\ op = "reflex" /\ pc = "loop" /\ idx = 2
    /\ Cardinality(OldStringsIn(original[TheFile])) >= 3
    /\ disk[TheFile] # original[TheFile]

\* C22: at every yield of a run of State.answer and when it has returned,
\* the entries chat_history had when the run was called are unchanged and one
\* entry follows them, made of the question State.question had at the call
\* and of the content chunks received so far, concatenated in the order of
\* their arrival; and State.question is the empty string.
C22_AnswerOnlyAppends ==
    chat_pc \in {"yielded", "returned"} =>
        /\ Len(chat_history) = Len(asked.history) + 1
        /\ SubSeq(chat_history, 1, Len(asked.history)) = asked.history
        /\ Last(chat_history) = <<asked.question, Flatten(asked.received)>>
        /\ question = <<>>

\* A second question was asked after a first one was answered; two
\* different chunks have arrived for it, and the run has returned.
C22_Witness ==
    /\ chat_pc = "returned"
    /\ Len(asked.history) = 1 /\ asked.history[1][2] # <<>>
    /\ asked.question # <<>>
    /\ Len(asked.received) = 2 /\ asked.received[1] # asked.received[2]

====
